---- MODULE Spec2Model ----
(***************************************************************************)
(* SwaggerV3Generator (flask_rebar/swagger_generation/swagger_generator_v3) *)
(* as a state machine.  A document, a path definition and an operation are  *)
(* Python dicts and are modelled as functions with string (or spec-path)    *)
(* domains; lists are sequences.  One call of generate is the run           *)
(*   BeginGenerate ; VisitPath* ; Assemble                                  *)
(* and GenerateAgain starts the next call on the same generator.            *)
(***************************************************************************)
EXTENDS Naturals, Sequences, FiniteSets, TLC

VARIABLES
    registry,          \* the HandlerRegistry handed to generate
    given,             \* history: the registry as the caller built it
    generator,         \* the SwaggerV3Generator's configuration (self.*)
    configured,        \* history: the generator as constructed
    host,              \* argument of the running call
    sort_keys,         \* argument of the running call
    pc,                \* "idle", "paths", "assemble", "done", "raised"
    idx,               \* position of the for loop over registry.paths
    components,        \* local of generate
    default_security,  \* local of generate
    path_definitions,  \* local of _get_paths
    result,            \* what the call returned: [doc, keys], or NoResult
    error,             \* exception raised by the call, or None
    calls,             \* number of generate calls started
    previous           \* history: outcome of the call before this one

vars == <<registry, given, generator, configured, host, sort_keys, pc, idx,
          components, default_security, path_definitions, result, error,
          calls, previous>>

(* ---------------------------------------------------------------- bounds *)
MaxPaths == 2
MaxAuth == 2
MaxCalls == 2

(* ------------------------------------------------------------- sentinels *)
USE_DEFAULT == "USE_DEFAULT"
None == "None"
NoResult == <<>>
EmptyDict == <<>>

\* Python truthiness of an optional string (None and "" are falsy).
Truthy(s) == s # None /\ s # ""

\* d[k] = v on a dict
Put(d, k, v) == (k :> v) @@ d

\* dict without the keys ks (what is left after dict.pop of each)
Without(d, ks) == [k \in (DOMAIN d) \ ks |-> d[k]]

\* list.extend over a list of lists, in order
RECURSIVE Flatten(_)
Flatten(ss) == IF ss = <<>> THEN <<>> ELSE Head(ss) \o Flatten(Tail(ss))

(* ------------------------------------------------- external collaborators *)
\* str.lower() of an HTTP method name, written in upper case, capitalised or
\* in lower case; the names of RFC 9110 and PATCH.  Other spellings are
\* outside the model.
Lower(method) ==
    CASE method \in {"GET", "Get", "get"} -> "get"
      [] method \in {"HEAD", "Head", "head"} -> "head"
      [] method \in {"POST", "Post", "post"} -> "post"
      [] method \in {"PUT", "Put", "put"} -> "put"
      [] method \in {"DELETE", "Delete", "delete"} -> "delete"
      [] method \in {"CONNECT", "Connect", "connect"} -> "connect"
      [] method \in {"OPTIONS", "Options", "options"} -> "options"
      [] method \in {"TRACE", "Trace", "trace"} -> "trace"
      [] method \in {"PATCH", "Patch", "patch"} -> "patch"

\* str(status_code)
Str(status_code) ==
    CASE status_code = 200 -> "200"
      [] status_code = 204 -> "204"
      [] status_code = 404 -> "404"

\* SwaggerGenerator.flask_converters_to_swagger_types
flask_converters_to_swagger_types ==
    [uuid |-> "string", uuid_string |-> "string", string |-> "string",
     path |-> "string", int |-> "integer", float |-> "number"]

\* get_swagger_title of a schema or of a handler function: its name
get_swagger_title(x) == x.name

\* The marshmallow schemas of the model: name, doc string, `many`, and the
\* fields as get_schema_fields yields them, each with the jsonschema its
\* converter returns.
Schemas ==
    [Error  |-> [name |-> "Error", doc |-> None, many |-> FALSE, fields |-> <<>>],
     Widget |-> [name |-> "Widget", doc |-> "A widget.", many |-> FALSE, fields |-> <<>>],
     Widgets |-> [name |-> "Widget", doc |-> "A widget.", many |-> TRUE, fields |-> <<>>],
     Query  |-> [name |-> "Query", doc |-> None, many |-> FALSE, fields |->
                  << [name |-> "limit", required |-> FALSE,
                      jsonschema |-> [type |-> "integer", description |-> "Page size."]],
                     [name |-> "ids", required |-> TRUE,
                      jsonschema |-> [type |-> "array", explode |-> TRUE, style |-> "form"]] >>],
     Headers |-> [name |-> "Headers", doc |-> None, many |-> FALSE, fields |->
                  << [name |-> "X-Token", required |-> TRUE,
                      jsonschema |-> [type |-> "string", description |-> None]] >>],
     DefaultHeaders |-> [name |-> "DefaultHeaders", doc |-> None, many |-> FALSE, fields |->
                  << [name |-> "X-Request-Id", required |-> FALSE,
                      jsonschema |-> [type |-> "string", description |-> "Trace id."]] >>],
     Empty  |-> [name |-> "Empty", doc |-> None, many |-> FALSE, fields |-> <<>>]]

get_schema_fields(schema) == Schemas[schema].fields

\* get_response_description: the schema's doc string, else its title
get_response_description(schema) ==
    IF Truthy(Schemas[schema].doc) THEN Schemas[schema].doc
    ELSE get_swagger_title(Schemas[schema])

\* get_ref_schema(base, schema): a $ref, wrapped in an array for many=True
get_ref_schema(base, schema) ==
    LET ref == [ref |-> <<base, get_swagger_title(Schemas[schema])>>]
    IN IF Schemas[schema].many THEN [type |-> "array", items |-> ref] ELSE ref

\* AuthenticatorConverterRegistry.get_security_requirements
get_security_requirements(authenticator) ==
    CASE authenticator = "Basic" -> << ("basicAuth" :> <<>>) >>
      [] authenticator = "ApiKey" -> << ("apiKey" :> <<>>) >>
      [] authenticator = "Both" -> << ("basicAuth" :> <<>>), ("apiKey" :> <<>>) >>
      [] OTHER -> <<>>

\* AuthenticatorConverterRegistry.get_security_schemes
get_security_schemes(authenticator) ==
    CASE authenticator = "Basic" -> ("basicAuth" :> [type |-> "http", scheme |-> "basic"])
      [] authenticator = "ApiKey" -> ("apiKey" :> [type |-> "apiKey", name |-> "X-Key"])
      [] authenticator = "Both" ->
            ("basicAuth" :> [type |-> "http", scheme |-> "basic"])
            @@ ("apiKey" :> [type |-> "apiKey", name |-> "X-Key"])
      [] OTHER -> EmptyDict

\* Tag.as_swagger and Server.as_swagger: optional members left out when unset
TagAsSwagger(tag) ==
    IF Truthy(tag.description) THEN [name |-> tag.name, description |-> tag.description]
    ELSE [name |-> tag.name]

ServerAsSwagger(server) ==
    IF Truthy(server.description) THEN [url |-> server.url, description |-> server.description]
    ELSE [url |-> server.url]

Server(url) == [url |-> url, description |-> None]

(* ------------------------------------------------------------ path formatter *)
\* A Flask path template is a sequence of segments: a literal
\* [kind |-> "lit", conv |-> "", name |-> text] or a placeholder
\* [kind |-> "arg", conv |-> converter or "" when none is written, name |-> n].
\* format_path_for_swagger: <conv:name> becomes {name}; the type of an
\* argument without converter is "string".
format_path_for_swagger(path) ==
    LET args == SelectSeq(path, LAMBDA s : s.kind = "arg")
    IN [spec_path |-> [k \in 1..Len(path) |-> [kind |-> path[k].kind, name |-> path[k].name]],
        path_args |-> [k \in 1..Len(args) |->
                         [name |-> args[k].name,
                          type |-> IF args[k].conv = "" THEN "string" ELSE args[k].conv]]]

\* verify_parameters_are_the_same(a, b): both lists, stably sorted by name,
\* are equal; TRUE when the check passes, FALSE when it raises.
verify_parameters_are_the_same(a, b) ==
    /\ Len(a) = Len(b)
    /\ \A n \in {a[k].name : k \in 1..Len(a)} \cup {b[k].name : k \in 1..Len(b)} :
          SelectSeq(a, LAMBDA p : p.name = n) = SelectSeq(b, LAMBDA p : p.name = n)

PathParams(path_args) ==
    [k \in 1..Len(path_args) |->
        [name |-> path_args[k].name,
         required |-> TRUE,
         in |-> "path",
         style |-> "simple",
         schema |-> [type |-> flask_converters_to_swagger_types[path_args[k].type]]]]

(* ------------------------------------------------- parameter flattener *)
\* `value is None`, for a value of any type
IsNone(value) == ToString(value) = ToString(None)

\* _convert_schema_to_list_of_parameters: one parameter per field; explode,
\* description and style are popped from the jsonschema, and each one whose
\* value is not None moves to the parameter.
Parameter(field, in_) ==
    LET jsonschema == field.jsonschema
        hints == {"explode", "description", "style"}
        moved == {h \in DOMAIN jsonschema \cap hints : ~IsNone(jsonschema[h])}
    IN [k \in {"name", "in", "schema", "required"} \cup moved |->
          CASE k = "name" -> field.name
            [] k = "in" -> in_
            [] k = "schema" -> Without(jsonschema, hints)
            [] k = "required" -> field.required
            [] OTHER -> jsonschema[k]]

convert_schema_to_list_of_parameters(schema, in_) ==
    LET fields == get_schema_fields(schema)
    IN [k \in 1..Len(fields) |-> Parameter(fields[k], in_)]

(* ------------------------------------------------------------ operations *)
\* An endpoint definition d (PathDefinition) is a record
\*   [endpoint, func : [name, doc], hidden, response_body_schema,
\*    query_string_schema, headers_schema, request_body_schema,
\*    authenticators, tags, summary]
\* response_body_schema is a function status code -> schema or None (the
\* empty function when nothing is declared); absent schemas are None.

get_response_definition(schema) ==
    [description |-> get_response_description(schema),
     content |-> ("application/json" :> [schema |-> get_ref_schema("#/components/schemas", schema)])]

\* ResponseEntry with None taken for a schema-less body still given a content
ResponseEntry_NoneWithContent(schema) ==
    IF schema # None THEN get_response_definition(schema)
    ELSE [description |-> "No response body.", content |-> EmptyDict]

\* lines 220-223
ResponseEntry(schema) ==
    IF schema # None THEN get_response_definition(schema)
    ELSE [description |-> "No response body."]

\* ResponsesDefinition with the default entry only for an endpoint that
\* declares no response
ResponsesDefinition_DefaultIfNone(d, default_response_schema) ==
    LET codes == DOMAIN d.response_body_schema
    IN IF codes = {} THEN ("default" :> get_response_definition(default_response_schema))
       ELSE [k \in {Str(c) : c \in codes} |->
               ResponseEntry(d.response_body_schema[CHOOSE c \in codes : Str(c) = k])]

\* lines 212-225
ResponsesDefinition(d, default_response_schema) ==
    LET codes == DOMAIN d.response_body_schema
        declared == [k \in {Str(c) : c \in codes} |->
                       ResponseEntry(d.response_body_schema[CHOOSE c \in codes : Str(c) = k])]
    IN declared @@ ("default" :> get_response_definition(default_response_schema))

\* HeadersSchema with None falling back to the default as USE_DEFAULT does
HeadersSchema_NoneIsDefault(d, default_headers_schema) ==
    IF d.headers_schema \in {USE_DEFAULT, None} THEN default_headers_schema ELSE d.headers_schema

\* lines 238-241
HeadersSchema(d, default_headers_schema) ==
    IF d.headers_schema = USE_DEFAULT THEN default_headers_schema ELSE d.headers_schema

\* lines 227-250
ParametersDefinition(d, default_headers_schema) ==
    LET headers_schema == HeadersSchema(d, default_headers_schema)
    IN (IF d.query_string_schema # None
        THEN convert_schema_to_list_of_parameters(d.query_string_schema, "query")
        ELSE <<>>)
       \o
       (IF headers_schema # None
        THEN convert_schema_to_list_of_parameters(headers_schema, "header")
        ELSE <<>>)

\* lines 252-264
RequestBody(d) ==
    IF d.request_body_schema # None
    THEN ("requestBody" :>
            [required |-> TRUE,
             content |-> ("application/json" :>
                            [schema |-> get_ref_schema("#/components/schemas", d.request_body_schema)])])
    ELSE EmptyDict

\* Security without the branch for an endpoint with no authenticator
Security_OmitsEmpty(d, ds) ==
    LET non_default == \E k \in 1..Len(d.authenticators) : d.authenticators[k] # USE_DEFAULT
        security == Flatten([k \in 1..Len(d.authenticators) |->
                       IF d.authenticators[k] # USE_DEFAULT
                       THEN get_security_requirements(d.authenticators[k])
                       ELSE ds])
    IN IF non_default THEN ("security" :> security) ELSE EmptyDict

\* Security with USE_DEFAULT entries contributing nothing
Security_DropsDefaults(d, ds) ==
    IF d.authenticators = <<>> THEN ("security" :> <<>>)
    ELSE LET non_default == \E k \in 1..Len(d.authenticators) : d.authenticators[k] # USE_DEFAULT
             security == Flatten([k \in 1..Len(d.authenticators) |->
                            IF d.authenticators[k] # USE_DEFAULT
                            THEN get_security_requirements(d.authenticators[k])
                            ELSE <<>>])
         IN IF non_default THEN ("security" :> security) ELSE EmptyDict

\* lines 281-297: the operation's security member, or no member at all
Security(d, ds) ==
    IF d.authenticators = <<>> THEN ("security" :> <<>>)
    ELSE LET non_default == \E k \in 1..Len(d.authenticators) : d.authenticators[k] # USE_DEFAULT
             security == Flatten([k \in 1..Len(d.authenticators) |->
                            IF d.authenticators[k] # USE_DEFAULT
                            THEN get_security_requirements(d.authenticators[k])
                            ELSE ds])
         IN IF non_default THEN ("security" :> security) ELSE EmptyDict

\* lines 266-303: the operation object of one endpoint
Operation(d, default_headers_schema, ds, default_response_schema) ==
    LET parameters_definition == ParametersDefinition(d, default_headers_schema)
    IN (IF Truthy(d.summary) THEN ("summary" :> d.summary) ELSE EmptyDict)
       @@ (IF d.tags # <<>> THEN ("tags" :> d.tags) ELSE EmptyDict)
       @@ Security(d, ds)
       @@ RequestBody(d)
       @@ (IF parameters_definition # <<>> THEN ("parameters" :> parameters_definition) ELSE EmptyDict)
       @@ (IF Truthy(d.func.doc) THEN ("description" :> d.func.doc) ELSE EmptyDict)
       @@ [operationId |-> IF Truthy(d.endpoint) THEN d.endpoint ELSE get_swagger_title(d.func),
           responses |-> ResponsesDefinition(d, default_response_schema)]

\* SkipEndpoint that forgets include_hidden
SkipEndpoint_IgnoresFlag(include_hidden, d) == d.hidden

\* line 209
SkipEndpoint(include_hidden, d) == ~include_hidden /\ d.hidden

\* lines 168-171
SkipPath(include_hidden, methods) ==
    ~include_hidden /\ \A k \in 1..Len(methods) : methods[k].d.hidden

\* lines 208-303: the for loop over the methods of one path template.
\* methods is the dict in insertion order, a sequence of [method, d].
RECURSIVE VisitMethods(_, _, _, _, _, _)
VisitMethods(path_definition, methods, include_hidden, default_headers_schema, ds, drs) ==
    IF methods = <<>> THEN path_definition
    ELSE LET m == Head(methods)
             next == IF SkipEndpoint(include_hidden, m.d) THEN path_definition
                     ELSE Put(path_definition, Lower(m.method),
                              Operation(m.d, default_headers_schema, ds, drs))
         IN VisitMethods(next, Tail(methods), include_hidden, default_headers_schema, ds, drs)

\* CurrentPathDefinition that starts a fresh definition for every template
CurrentPathDefinition_Fresh(pds, spec_path) == EmptyDict

\* lines 176-179: the path definition to work on
CurrentPathDefinition(pds, spec_path) ==
    IF spec_path \in DOMAIN pds THEN pds[spec_path] ELSE EmptyDict

\* MergePathParams without the comparison with the parameters already there
MergePathParams_NoVerify(path_definition, path_args) ==
    IF path_args = <<>> THEN [raised |-> FALSE, path_definition |-> path_definition]
    ELSE [raised |-> FALSE,
          path_definition |-> Put(path_definition, "parameters", PathParams(path_args))]

\* lines 181-206: [raised, path_definition]
MergePathParams(path_definition, path_args) ==
    IF path_args = <<>> THEN [raised |-> FALSE, path_definition |-> path_definition]
    ELSE LET path_params == PathParams(path_args)
         IN IF /\ "parameters" \in DOMAIN path_definition
               /\ ~verify_parameters_are_the_same(path_definition["parameters"], path_params)
            THEN [raised |-> TRUE, path_definition |-> path_definition]
            ELSE [raised |-> FALSE,
                  path_definition |-> Put(path_definition, "parameters", path_params)]

(* ------------------------------------------------------------ components *)
\* every endpoint of the registry, hidden or not
Endpoints(reg) ==
    UNION {{reg.paths[i].methods[k].d : k \in 1..Len(reg.paths[i].methods)} :
           i \in 1..Len(reg.paths)}

\* get_unique_schema_definitions: request and response body schemas of every
\* endpoint plus the default response schema, one entry per title.
get_unique_schema_definitions(reg, default_response_schema) ==
    LET used == {default_response_schema}
                \cup {d.request_body_schema : d \in Endpoints(reg)}
                \cup UNION {{d.response_body_schema[c] : c \in DOMAIN d.response_body_schema} :
                            d \in Endpoints(reg)}
        titles == {get_swagger_title(Schemas[s]) : s \in (used \ {None})}
    IN [t \in titles |-> [type |-> "object", title |-> t]]

\* get_unique_authenticators: the registry's defaults and every concrete
\* authenticator an endpoint declares.
get_unique_authenticators(reg) ==
    ({reg.default_authenticators[k] : k \in 1..Len(reg.default_authenticators)}
     \cup UNION {{d.authenticators[k] : k \in 1..Len(d.authenticators)} : d \in Endpoints(reg)})
    \ {USE_DEFAULT}

\* _get_components, lines 315-344
get_components(reg, default_response_schema) ==
    LET schemas == get_unique_schema_definitions(reg, default_response_schema)
        authenticators == get_unique_authenticators(reg)
        names == UNION {DOMAIN get_security_schemes(a) : a \in authenticators}
        security_schemes ==
            [n \in names |->
                get_security_schemes(CHOOSE a \in authenticators :
                                        n \in DOMAIN get_security_schemes(a))[n]]
    IN (IF schemas # EmptyDict THEN ("schemas" :> schemas) ELSE EmptyDict)
       @@ (IF names # {} THEN ("securitySchemes" :> security_schemes) ELSE EmptyDict)

(* -------------------------------------------------------------- document *)
\* _get_info of the base generator
get_info(gen) ==
    IF Truthy(gen.description)
    THEN [version |-> gen.version, title |-> gen.title, description |-> gen.description]
    ELSE [version |-> gen.version, title |-> gen.title]

\* lines 119-123
DefaultSecurity(reg) ==
    Flatten([k \in 1..Len(reg.default_authenticators) |->
                get_security_requirements(reg.default_authenticators[k])])

\* lines 143-146: the servers of this call; self.servers is copied, not aliased
Servers(gen, h) ==
    gen.servers \o (IF Truthy(h) THEN <<Server(h)>> ELSE <<>>)

\* Swagger with security, tags and servers emitted whether empty or not
Swagger_EmitsEmpty(gen, h, ds, paths, comps) ==
    LET servers == Servers(gen, h)
    IN [openapi |-> "3.1.0", info |-> get_info(gen), paths |-> paths, components |-> comps,
        security |-> ds,
        tags |-> [k \in 1..Len(gen.tags) |-> TagAsSwagger(gen.tags[k])],
        servers |-> [k \in 1..Len(servers) |-> ServerAsSwagger(servers[k])]]

\* lines 131-149: the document before the key sort
Swagger(gen, h, ds, paths, comps) ==
    LET servers == Servers(gen, h)
    IN (IF servers # <<>>
        THEN ("servers" :> [k \in 1..Len(servers) |-> ServerAsSwagger(servers[k])])
        ELSE EmptyDict)
       @@ (IF gen.tags # <<>>
           THEN ("tags" :> [k \in 1..Len(gen.tags) |-> TagAsSwagger(gen.tags[k])])
           ELSE EmptyDict)
       @@ (IF ds # <<>> THEN ("security" :> ds) ELSE EmptyDict)
       @@ [openapi |-> "3.1.0", info |-> get_info(gen), paths |-> paths, components |-> comps]

\* The order of the document's top-level keys: the order of insertion of
\* lines 131-149, or, after recursively_convert_dict_to_ordered_dict, the
\* lexicographic one.
KeyOrder(doc, sorted) ==
    LET inserted == <<"openapi", "info", "paths", "components", "security", "tags", "servers">>
        lexicographic == <<"components", "info", "openapi", "paths", "security", "servers", "tags">>
    IN SelectSeq(IF sorted THEN lexicographic ELSE inserted, LAMBDA k : k \in DOMAIN doc)

(* --------------------------------------------------------------- actions *)
\* BeginGenerate with default_security kept from the call before
BeginGenerate_KeepsSecurity ==
    /\ pc = "idle"
    /\ calls < MaxCalls
    /\ calls' = calls + 1
    /\ components' = get_components(registry, generator.default_response_schema)
    /\ default_security' = default_security \o DefaultSecurity(registry)
    /\ path_definitions' = EmptyDict
    /\ idx' = 1
    /\ result' = NoResult
    /\ error' = None
    /\ pc' = "paths"
    /\ UNCHANGED <<registry, given, generator, configured, host, sort_keys, previous>>

\* generate, lines 117-123, and the first line of _get_paths (163)
BeginGenerate ==
    /\ pc = "idle"
    /\ calls < MaxCalls
    /\ calls' = calls + 1
    /\ components' = get_components(registry, generator.default_response_schema)
    /\ default_security' = DefaultSecurity(registry)
    /\ path_definitions' = EmptyDict
    /\ idx' = 1
    /\ result' = NoResult
    /\ error' = None
    /\ pc' = "paths"
    /\ UNCHANGED <<registry, given, generator, configured, host, sort_keys, previous>>

\* one iteration of the loop of _get_paths, lines 165-303
VisitPath ==
    /\ pc = "paths"
    /\ idx <= Len(registry.paths)
    /\ LET entry == registry.paths[idx]
           formatted == format_path_for_swagger(entry.path)
           spec_path == formatted.spec_path
           merged == MergePathParams(CurrentPathDefinition(path_definitions, spec_path),
                                     formatted.path_args)
       IN IF SkipPath(generator.include_hidden, entry.methods)
          THEN /\ idx' = idx + 1
               /\ UNCHANGED <<path_definitions, pc, error>>
          ELSE IF merged.raised
          THEN /\ pc' = "raised"
               /\ error' = "ParameterMismatch"
               /\ UNCHANGED <<path_definitions, idx>>
          ELSE /\ path_definitions' =
                     Put(path_definitions, spec_path,
                         VisitMethods(merged.path_definition, entry.methods,
                                      generator.include_hidden,
                                      registry.default_headers_schema,
                                      default_security,
                                      generator.default_response_schema))
               /\ idx' = idx + 1
               /\ UNCHANGED <<pc, error>>
    /\ UNCHANGED <<registry, given, generator, configured, host, sort_keys,
                   components, default_security, result, calls, previous>>

\* generate, lines 131-155
Assemble ==
    /\ pc = "paths"
    /\ idx > Len(registry.paths)
    /\ LET swagger == Swagger(generator, host, default_security, path_definitions, components)
       IN result' = [doc |-> swagger, keys |-> KeyOrder(swagger, sort_keys)]
    /\ pc' = "done"
    /\ UNCHANGED <<registry, given, generator, configured, host, sort_keys, idx,
                   components, default_security, path_definitions, error, calls, previous>>

\* the caller keeps what the call gave and is ready to call generate again
GenerateAgain ==
    /\ pc \in {"done", "raised"}
    /\ calls < MaxCalls
    /\ previous' = [result |-> result, error |-> error]
    /\ pc' = "idle"
    /\ UNCHANGED <<registry, given, generator, configured, host, sort_keys, idx,
                   components, default_security, path_definitions, result, error, calls>>

Next == BeginGenerate \/ VisitPath \/ Assemble \/ GenerateAgain

(* ---------------------------------------------------------------- inputs *)
Lit(text) == [kind |-> "lit", conv |-> "", name |-> text]
Arg(conv, name) == [kind |-> "arg", conv |-> conv, name |-> name]

WidgetsInt == <<Lit("widgets"), Arg("int", "id")>>       \* /widgets/<int:id>
WidgetsString == <<Lit("widgets"), Arg("string", "id")>> \* /widgets/<string:id>
WidgetsPlain == <<Lit("widgets"), Arg("", "id")>>        \* /widgets/<id>
WidgetsAll == <<Lit("widgets")>>                         \* /widgets

Templates == {WidgetsInt, WidgetsString, WidgetsPlain, WidgetsAll}

\* Flask endpoint names are unique per handler
EndpointName(path, method) ==
    CASE path = WidgetsInt /\ method = "GET" -> "get_widget_int"
      [] path = WidgetsInt /\ method = "POST" -> "post_widget_int"
      [] path = WidgetsString /\ method = "GET" -> "get_widget_string"
      [] path = WidgetsString /\ method = "POST" -> "post_widget_string"
      [] path = WidgetsPlain /\ method = "GET" -> "get_widget_plain"
      [] path = WidgetsPlain /\ method = "POST" -> "post_widget_plain"
      [] path = WidgetsAll /\ method = "GET" -> "list_widgets"
      [] path = WidgetsAll /\ method = "POST" -> "create_widget"

\* a handler registered with the defaults of HandlerRegistry.add_handler
BaseDef(endpoint) ==
    [endpoint |-> endpoint,
     func |-> [name |-> "handler", doc |-> None],
     hidden |-> FALSE,
     response_body_schema |-> (200 :> "Widget"),
     query_string_schema |-> None,
     headers_schema |-> USE_DEFAULT,
     request_body_schema |-> None,
     authenticators |-> <<USE_DEFAULT>>,
     tags |-> <<>>,
     summary |-> None]

BaseGenerator ==
    [version |-> "1.0.0", title |-> "My API", description |-> "",
     tags |-> <<>>, servers |-> <<>>,
     default_response_schema |-> "Error", include_hidden |-> FALSE]

\* the methods dict of one template: GET, POST or both, each hidden or not
MethodLists == {<<"GET">>, <<"POST">>, <<"GET", "POST">>}

MethodProfiles(path) ==
    UNION {{[k \in 1..Len(ms) |->
               [method |-> ms[k],
                d |-> [BaseDef(EndpointName(path, ms[k])) EXCEPT !.hidden = h[k]]]] :
            h \in [1..Len(ms) -> BOOLEAN]} : ms \in MethodLists}

PathEntries == UNION {{[path |-> t, methods |-> p] : p \in MethodProfiles(t)} : t \in Templates}

\* registries of up to MaxPaths distinct templates, in every order
PathRegistries ==
    {[paths |-> ps, default_headers_schema |-> None, default_authenticators |-> <<>>] :
        ps \in UNION {{q \in [1..n -> PathEntries] :
                         \A i, j \in 1..n : q[i].path = q[j].path => i = j} :
                      n \in 1..MaxPaths}}

\* one endpoint, every combination of its responses, parameters and security
ResponseMaps == UNION {[S -> {"Widget", None}] : S \in SUBSET {200, 204}}
AuthLists == UNION {[1..n -> {USE_DEFAULT, "Basic", "Quiet"}] : n \in 0..MaxAuth}

OperationDefs ==
    [endpoint : {None},
     func : {[name |-> "get_widget", doc |-> "Get a widget."]},
     hidden : {FALSE},
     response_body_schema : ResponseMaps,
     query_string_schema : {None, "Query"},
     headers_schema : {USE_DEFAULT, None, "Headers"},
     request_body_schema : {None},
     authenticators : AuthLists,
     tags : {<<>>},
     summary : {None}]

OperationRegistries ==
    {[paths |-> << [path |-> WidgetsInt, methods |-> << [method |-> "GET", d |-> d] >>] >>,
      default_headers_schema |-> dhs,
      default_authenticators |-> da] :
        d \in OperationDefs,
        dhs \in {None, "DefaultHeaders"},
        da \in {<<>>, <<"ApiKey">>, <<"Quiet">>}}

\* one endpoint under every configuration of the generator and of the call
DocumentDefs ==
    [endpoint : {"create_widget"},
     func : {[name |-> "create_widget", doc |-> None]},
     hidden : {FALSE},
     response_body_schema : {(200 :> "Widgets")},
     query_string_schema : {None, "Empty"},
     headers_schema : {USE_DEFAULT},
     request_body_schema : {None, "Widget"},
     authenticators : {<<USE_DEFAULT>>},
     tags : {<<>>, <<"widgets">>},
     summary : {None, "Create a widget."}]

DocumentRegistries ==
    {[paths |-> << [path |-> WidgetsAll, methods |-> << [method |-> m, d |-> d] >>] >>,
      default_headers_schema |-> None,
      default_authenticators |-> da] :
        d \in DocumentDefs,
        m \in {"POST", "Delete"},
        da \in {<<>>, <<"Both">>, <<"Quiet">>}}

DocumentGenerators ==
    {[BaseGenerator EXCEPT !.tags = t, !.servers = s, !.default_response_schema = r] :
        t \in {<<>>, <<[name |-> "widgets", description |-> None]>>},
        s \in {<<>>, <<[url |-> "https://example.com", description |-> "production"]>>},
        r \in {"Error", "Widget"}}

Hosts == {None, "", "api.example.com"}

InitLocals ==
    /\ given = registry
    /\ configured = generator
    /\ pc = "idle"
    /\ idx = 1
    /\ components = EmptyDict
    /\ default_security = <<>>
    /\ path_definitions = EmptyDict
    /\ result = NoResult
    /\ error = None
    /\ calls = 0
    /\ previous = [result |-> NoResult, error |-> None]

Init ==
    /\ \/ /\ registry \in PathRegistries
          /\ generator \in {[BaseGenerator EXCEPT !.include_hidden = b] : b \in BOOLEAN}
          /\ host = None
          /\ sort_keys = TRUE
       \/ /\ registry \in OperationRegistries
          /\ generator = BaseGenerator
          /\ host = None
          /\ sort_keys = TRUE
       \/ /\ registry \in DocumentRegistries
          /\ generator \in DocumentGenerators
          /\ host \in Hosts
          /\ sort_keys \in BOOLEAN
    /\ InitLocals

Spec == Init /\ [][Next]_vars

(* ------------------------------------------------- vocabulary of the claims *)
Done == pc = "done"
Document == result.doc

Positions ==
    UNION {{<<i, k>> : k \in 1..Len(registry.paths[i].methods)} : i \in 1..Len(registry.paths)}

TemplateAt(i) == registry.paths[i].path
MethodAt(p) == registry.paths[p[1]].methods[p[2]].method
EndpointAt(p) == registry.paths[p[1]].methods[p[2]].d
SpecPathOf(i) == format_path_for_swagger(TemplateAt(i)).spec_path

\* the endpoint is not filtered out by the hidden flag
Shown(p) == generator.include_hidden \/ ~EndpointAt(p).hidden

\* the template has an endpoint that is not filtered out
TemplateShown(i) == \E p \in Positions : p[1] = i /\ Shown(p)

\* the shown endpoints that land on operation m of spec path sp
Landing(sp, m) ==
    {p \in Positions : SpecPathOf(p[1]) = sp /\ Lower(MethodAt(p)) = m /\ Shown(p)}

\* the one of them the registry lists last
Latest(S) ==
    CHOOSE p \in S : \A q \in S : q[1] < p[1] \/ (q[1] = p[1] /\ q[2] <= p[2])

\* the operations of the document, as <<spec path, method key>>
Emitted ==
    UNION {{<<sp, m>> : m \in (DOMAIN Document.paths[sp]) \ {"parameters"}} :
           sp \in DOMAIN Document.paths}

OperationOf(e) == Document.paths[e[1]][e[2]]

\* the endpoint an emitted operation was built from
Source(e) == EndpointAt(Latest(Landing(e[1], e[2])))

\* the operation id an endpoint is emitted under
IdOf(d) == IF d.endpoint \in {None, ""} THEN d.func.name ELSE d.endpoint

\* the swagger type a template declares for its parameter `name`
DeclaredType(path, name) ==
    LET seg == CHOOSE x \in {path[k] : k \in 1..Len(path)} : x.kind = "arg" /\ x.name = name
    IN CASE seg.conv \in {"", "string", "path", "uuid", "uuid_string"} -> "string"
         [] seg.conv = "int" -> "integer"
         [] seg.conv = "float" -> "number"

ArgNames(path) == {path[k].name : k \in {j \in 1..Len(path) : path[j].kind = "arg"}}

\* templates i and j give one spec path and type a same-named parameter differently
Conflict(i, j) ==
    /\ SpecPathOf(i) = SpecPathOf(j)
    /\ \E n \in ArgNames(TemplateAt(i)) \cap ArgNames(TemplateAt(j)) :
          DeclaredType(TemplateAt(i), n) # DeclaredType(TemplateAt(j), n)

Indices == 1..Len(registry.paths)

\* the call is over: it returned a document or raised
Returned == pc \in {"done", "raised"}

(* ------------------------------------------------------------------- C1 *)
\* C1 as stated: whenever two templates of the registry conflict, whatever
\* is hidden, the call ends in the parameter-mismatch error and no document.
C1_AsStated ==
    (Returned /\ \E i, j \in Indices : Conflict(i, j))
        => (pc = "raised" /\ error = "ParameterMismatch" /\ result = NoResult)

\* C1 (amended): the call ends in the parameter-mismatch error, with no
\* document, whenever two conflicting templates are both visited, that is
\* include_hidden is set or each has an endpoint that is not hidden; the
\* order of the templates and the hidden flags of their other endpoints do
\* not matter.
C1_MismatchRaised ==
    (Returned /\ \E i, j \in Indices :
                    Conflict(i, j) /\ TemplateShown(i) /\ TemplateShown(j))
        => (pc = "raised" /\ error = "ParameterMismatch" /\ result = NoResult)

\* the error is raised with include_hidden off while a conflicting template
\* keeps a hidden endpoint beside a shown one
C1_Witness ==
    /\ pc = "raised"
    /\ ~generator.include_hidden
    /\ \E i, j \in Indices :
          /\ Conflict(i, j) /\ i > j
          /\ \E p \in Positions : p[1] = i /\ EndpointAt(p).hidden

(* ------------------------------------------------------------------- C2 *)
\* C2: with include_hidden off every operation of the document is built from
\* an endpoint that is not hidden (so a hidden endpoint emits nothing), and
\* every path entry belongs to a template with an endpoint that is not
\* hidden (so an all-hidden template contributes no entry); with
\* include_hidden on, a hidden endpoint that is the last on its operation is
\* emitted as exactly the operation it gives with hidden = false.
C2_Hidden ==
    Done =>
        /\ ~generator.include_hidden =>
              /\ \A e \in Emitted :
                    \E p \in Positions :
                       /\ ~EndpointAt(p).hidden
                       /\ SpecPathOf(p[1]) = e[1] /\ Lower(MethodAt(p)) = e[2]
                       /\ OperationOf(e).operationId = IdOf(EndpointAt(p))
              /\ \A p \in Positions :
                    EndpointAt(p).hidden =>
                       \A e \in Emitted :
                          OperationOf(e).operationId # IdOf(EndpointAt(p))
              /\ \A sp \in DOMAIN Document.paths :
                    \E p \in Positions : SpecPathOf(p[1]) = sp /\ ~EndpointAt(p).hidden
        /\ generator.include_hidden =>
              \A p \in Positions :
                 LET sp == SpecPathOf(p[1])
                     m == Lower(MethodAt(p))
                 IN (EndpointAt(p).hidden /\ p = Latest(Landing(sp, m))) =>
                       /\ sp \in DOMAIN Document.paths
                       /\ m \in DOMAIN Document.paths[sp]
                       /\ Document.paths[sp][m] =
                             Operation([EndpointAt(p) EXCEPT !.hidden = FALSE],
                                       registry.default_headers_schema,
                                       DefaultSecurity(registry),
                                       generator.default_response_schema)

\* a document produced with include_hidden off from a registry holding an
\* all-hidden template and a partly hidden one
C2_Witness ==
    /\ Done
    /\ ~generator.include_hidden
    /\ \E i \in Indices : ~TemplateShown(i)
    /\ \E p, q \in Positions : p[1] = q[1] /\ EndpointAt(p).hidden /\ ~EndpointAt(q).hidden

\* a document produced with include_hidden on that holds a hidden endpoint
C2_WitnessIncluded ==
    /\ Done
    /\ generator.include_hidden
    /\ \E e \in Emitted : Source(e).hidden

(* ------------------------------------------------------------------- C3 *)
\* C3: every emitted operation whose endpoint declares no authenticator has
\* a security member and it is the empty list, whatever the registry's
\* default authenticators are.
C3_NoAuthenticators ==
    Done =>
        \A e \in Emitted :
           Source(e).authenticators = <<>> =>
              ("security" \in DOMAIN OperationOf(e) /\ OperationOf(e)["security"] = <<>>)

\* such an operation in a document whose global security is not empty
C3_Witness ==
    /\ Done
    /\ "security" \in DOMAIN Document
    /\ \E e \in Emitted :
          Source(e).authenticators = <<>> /\ OperationOf(e)["security"] = <<>>

(* ------------------------------------------------------------------- C4 *)
\* the requirements an authenticator list stands for, in declaration order
RECURSIVE Requirements(_)
Requirements(authenticators) ==
    IF authenticators = <<>> THEN <<>>
    ELSE (IF Head(authenticators) = USE_DEFAULT
          THEN DefaultSecurity(registry)
          ELSE get_security_requirements(Head(authenticators)))
         \o Requirements(Tail(authenticators))

Concrete(authenticators) ==
    \E k \in 1..Len(authenticators) : authenticators[k] # USE_DEFAULT

\* C4: an emitted operation whose endpoint declares one or more
\* authenticators has a security member iff one of them is concrete; the
\* member is then the concatenation, in declaration order, of the
\* requirements of the concrete ones and of the registry's default
\* requirements for each USE_DEFAULT; with only USE_DEFAULT entries there is
\* no security member.
C4_Authenticators ==
    Done =>
        \A e \in Emitted :
           LET a == Source(e).authenticators
           IN a # <<>> =>
                /\ ("security" \in DOMAIN OperationOf(e)) <=> Concrete(a)
                /\ Concrete(a) => OperationOf(e)["security"] = Requirements(a)

\* a concrete authenticator after a USE_DEFAULT entry, under a registry whose
\* defaults give a requirement: the default's requirement comes first
C4_Witness ==
    /\ Done
    /\ DefaultSecurity(registry) # <<>>
    /\ \E e \in Emitted :
          /\ Source(e).authenticators = <<USE_DEFAULT, "Basic">>
          /\ OperationOf(e)["security"] = DefaultSecurity(registry) \o <<("basicAuth" :> <<>>)>>

(* ------------------------------------------------------------------- C5 *)
\* the response definition of the two schemas a generator is configured with
DefaultResponse(schema) ==
    CASE schema = "Error" ->
            [description |-> "Error",
             content |-> ("application/json" :>
                            [schema |-> [ref |-> <<"#/components/schemas", "Error">>]])]
      [] schema = "Widget" ->
            [description |-> "A widget.",
             content |-> ("application/json" :>
                            [schema |-> [ref |-> <<"#/components/schemas", "Widget">>]])]

\* C5: every operation of the document has a default response, the response
\* definition of the generator's default response schema, however many
\* status codes its endpoint maps.
C5_DefaultResponse ==
    Done =>
        \A e \in Emitted :
           /\ "default" \in DOMAIN OperationOf(e).responses
           /\ OperationOf(e).responses["default"] =
                 DefaultResponse(generator.default_response_schema)

\* an operation with two mapped status codes, and the default beside them
C5_Witness ==
    /\ Done
    /\ \E e \in Emitted :
          /\ DOMAIN Source(e).response_body_schema = {200, 204}
          /\ DOMAIN OperationOf(e).responses = {"200", "204", "default"}

\* an operation with no mapped status code at all
C5_WitnessNone ==
    /\ Done
    /\ \E e \in Emitted :
          /\ Source(e).response_body_schema = EmptyDict
          /\ DOMAIN OperationOf(e).responses = {"default"}

(* ------------------------------------------------------------------- C6 *)
StatusCodes == {200, 204, 404}

\* C6: a status code mapped to None is rendered as the body-absent
\* description alone, one mapped to a schema references that schema (as
\* such, or as the items of an array for a many-schema), and one that is not
\* mapped has no entry.
C6_Responses ==
    Done =>
        \A e \in Emitted :
           LET mapped == Source(e).response_body_schema
               responses == OperationOf(e).responses
           IN \A c \in StatusCodes :
                 /\ (c \in DOMAIN mapped /\ mapped[c] = None) =>
                       /\ Str(c) \in DOMAIN responses
                       /\ responses[Str(c)] = [description |-> "No response body."]
                 /\ (c \in DOMAIN mapped /\ mapped[c] # None) =>
                       /\ Str(c) \in DOMAIN responses
                       /\ DOMAIN responses[Str(c)] = {"description", "content"}
                       /\ LET ref == [ref |-> <<"#/components/schemas", Schemas[mapped[c]].name>>]
                          IN responses[Str(c)].content["application/json"].schema
                                \in {ref, [type |-> "array", items |-> ref]}
                 /\ c \notin DOMAIN mapped => Str(c) \notin DOMAIN responses

\* one operation with a code mapped to None and another code not mapped
C6_Witness ==
    /\ Done
    /\ \E e \in Emitted :
          /\ 204 \in DOMAIN Source(e).response_body_schema
          /\ Source(e).response_body_schema[204] = None
          /\ 200 \notin DOMAIN Source(e).response_body_schema
          /\ "204" \in DOMAIN OperationOf(e).responses
          /\ "200" \notin DOMAIN OperationOf(e).responses

(* ------------------------------------------------------------------- C7 *)
\* C7: with sort_keys set, a call of generate on the unchanged registry
\* returns what the call before it returned (the same document with the same
\* key order, or the same error), and no step changes the registry.
C7_Deterministic ==
    /\ registry = given
    /\ (Returned /\ calls >= 2 /\ sort_keys) =>
          (result = previous.result /\ error = previous.error)

\* a second call returned a document with global security, servers and a
\* merged path
C7_Witness ==
    /\ Done
    /\ calls >= 2
    /\ sort_keys
    /\ result = previous.result
    /\ {"security", "servers"} \subseteq DOMAIN Document

(* ------------------------------------------------------------------- C8 *)
\* the registry's default authenticators include one that yields a requirement
DefaultsRequire ==
    \E k \in 1..Len(registry.default_authenticators) :
       registry.default_authenticators[k] \in {"Basic", "ApiKey", "Both"}

\* a host was handed to the call (None and the empty string are no host)
HostPassed == host \notin {None, ""}

\* C8: the document has openapi, info, paths and components; security iff
\* the default authenticators yield a requirement; tags iff the generator
\* has a non-empty tag list; servers iff the configured list is non-empty or
\* a host is passed, the host coming last; none of the three is empty.
C8_TopLevel ==
    Done =>
        /\ {"openapi", "info", "paths", "components"} \subseteq DOMAIN Document
        /\ DOMAIN Document \subseteq
              {"openapi", "info", "paths", "components", "security", "tags", "servers"}
        /\ ("security" \in DOMAIN Document) <=> DefaultsRequire
        /\ ("tags" \in DOMAIN Document) <=> (generator.tags # <<>>)
        /\ ("servers" \in DOMAIN Document) <=> (generator.servers # <<>> \/ HostPassed)
        /\ \A k \in {"security", "tags", "servers"} \cap DOMAIN Document : Document[k] # <<>>
        /\ "servers" \in DOMAIN Document =>
              /\ Len(Document["servers"]) =
                    Len(generator.servers) + (IF HostPassed THEN 1 ELSE 0)
              /\ \A k \in 1..Len(generator.servers) :
                    Document["servers"][k].url = generator.servers[k].url
              /\ HostPassed =>
                    Document["servers"][Len(Document["servers"])] = [url |-> host]
        /\ Len(result.keys) = Cardinality(DOMAIN Document)

\* a document with a configured server followed by the host, and without
\* security and tags although default authenticators are declared
C8_Witness ==
    /\ Done
    /\ registry.default_authenticators # <<>>
    /\ DOMAIN Document = {"openapi", "info", "paths", "components", "servers"}
    /\ Len(Document["servers"]) = 2
    /\ Document["servers"][2] = [url |-> host]

(* ------------------------------------------------------------------- C9 *)
\* name and location of the parameters of an operation, in order
Brief(operation) ==
    IF "parameters" \in DOMAIN operation
    THEN [k \in 1..Len(operation["parameters"]) |->
            <<operation["parameters"][k].name, operation["parameters"][k]["in"]>>]
    ELSE <<>>

\* the parameters a schema stands for
FieldsOf(schema, in_) ==
    IF schema = None THEN <<>>
    ELSE [k \in 1..Len(Schemas[schema].fields) |-> <<Schemas[schema].fields[k].name, in_>>]

\* C9: the header parameters of an operation are those of the registry's
\* default headers schema when the endpoint's headers_schema is USE_DEFAULT,
\* none when it is None, and those of its own schema otherwise; the query
\* parameters come first; the parameters member is left out when there are
\* none.
C9_Parameters ==
    Done =>
        \A e \in Emitted :
           LET d == Source(e)
               brief == Brief(OperationOf(e))
               headers == SelectSeq(brief, LAMBDA x : x[2] = "header")
               queries == SelectSeq(brief, LAMBDA x : x[2] = "query")
           IN /\ d.headers_schema = USE_DEFAULT =>
                    headers = FieldsOf(registry.default_headers_schema, "header")
              /\ d.headers_schema = None => headers = <<>>
              /\ d.headers_schema \notin {USE_DEFAULT, None} =>
                    headers = FieldsOf(d.headers_schema, "header")
              /\ queries = FieldsOf(d.query_string_schema, "query")
              /\ brief = queries \o headers
              /\ ("parameters" \in DOMAIN OperationOf(e)) <=> (brief # <<>>)

\* an endpoint with headers_schema None under a registry with a default
\* headers schema: query parameters only
C9_Witness ==
    /\ Done
    /\ registry.default_headers_schema # None
    /\ \E e \in Emitted :
          /\ Source(e).headers_schema = None
          /\ Source(e).query_string_schema = "Query"
          /\ Brief(OperationOf(e)) = << <<"limit", "query">>, <<"ids", "query">> >>

\* an endpoint with USE_DEFAULT headers: the default's header after the queries
C9_WitnessDefault ==
    /\ Done
    /\ \E e \in Emitted :
          /\ Source(e).headers_schema = USE_DEFAULT
          /\ Brief(OperationOf(e)) =
                << <<"limit", "query">>, <<"ids", "query">>, <<"X-Request-Id", "header">> >>

(* ------------------------------------------------------------------ C10 *)
\* C10: the templates that normalize to one spec path share one path entry;
\* it holds an operation for exactly the methods some shown endpoint of
\* those templates defines, and each operation is that of the endpoint the
\* registry lists last for the method.
C10_Merge ==
    Done =>
        /\ DOMAIN Document.paths = {SpecPathOf(i) : i \in {j \in Indices : TemplateShown(j)}}
        /\ \A sp \in DOMAIN Document.paths :
              /\ (DOMAIN Document.paths[sp]) \ {"parameters"} =
                    {Lower(MethodAt(p)) : p \in {q \in Positions : SpecPathOf(q[1]) = sp /\ Shown(q)}}
              /\ \A m \in (DOMAIN Document.paths[sp]) \ {"parameters"} :
                    Document.paths[sp][m].operationId = IdOf(Source(<<sp, m>>))

\* two templates on one spec path: both define GET, only the first POST; the
\* entry keeps the first one's POST and the second one's GET
C10_Witness ==
    /\ Done
    /\ \E sp \in DOMAIN Document.paths :
          \E p, q, r \in Positions :
             /\ p[1] < q[1] /\ r[1] = p[1]
             /\ SpecPathOf(p[1]) = sp /\ SpecPathOf(q[1]) = sp
             /\ MethodAt(p) = "GET" /\ MethodAt(q) = "GET" /\ MethodAt(r) = "POST"
             /\ Shown(p) /\ Shown(q) /\ Shown(r)
             /\ Landing(sp, "post") = {r}
             /\ Document.paths[sp]["get"].operationId = IdOf(EndpointAt(q))
             /\ Document.paths[sp]["post"].operationId = IdOf(EndpointAt(r))
====
